---- MODULE Spec2Model ----
(***************************************************************************)
(* The session phase state machine of the tutoring backend:                *)
(* SessionState (state/session_state.py) and the SessionOrchestrator       *)
(* facade (orchestrator.py) with its three helper flows: the evaluator     *)
(* (evaluator/orchestrator.py), the teacher (teacher/agent.py) and the     *)
(* quiz (quiz/generator.py).  One session is modelled.  The reasoning      *)
(* gateway (the OpenAI client) and the persistence sink are the            *)
(* environment: every call to them draws its outcome with \E.              *)
(*                                                                         *)
(* Conversation turns are modelled by their role; an Optional[T] value is  *)
(* the empty sequence (None) or a one-element sequence <<x>>.              *)
(***************************************************************************)
EXTENDS Integers, Sequences, FiniteSets, TLC

VARIABLES
    state,      \* SessionOrchestrator.state : SessionState
    evaluator,  \* SessionOrchestrator._evaluator : Optional[EvaluatorOrchestrator]
    teacher,    \* SessionOrchestrator._teacher : Optional[TeacherAgent]
    quiz,       \* SessionOrchestrator._quiz : Optional[Quiz]
    last,       \* the last call on the session: its arguments and what it returned
    used,       \* how much of the explored budget the run has used
    persistence, \* the SessionPersistence instance (persistence/mongodb.py)
    registry,   \* _orchestrators and the SessionStore, by session id
    callers     \* the concurrent callers: where each is in its call

vars ==
    <<state, evaluator, teacher, quiz, last, used, persistence, registry,
      callers>>

----------------------------------------------------------------------------
\* Bounds of the model.

\* Longest evaluator / teacher / quiz / review log explored.
MaxEvalLog == 12
MaxTeacherLog == 11
MaxQuizLog == 1
MaxReviewLog == 3
\* Largest quiz the gateway returns, longest answer list submitted, largest
\* score the gateway reports.
MaxQuizQuestions == 1
MaxAnswers == 2
MaxScore == 1
\* Most detours in one run.  A detour is a get_intro call, a re-creation of
\* the orchestrator, or any other call during which the environment fails
\* (the gateway raises, the review lacks its summary, the sink does not save).
MaxDetours == 1
\* Most quiz submissions that reach the scoring call in one run.
MaxSubmits == 1
\* A forward skip_to_phase is explored while the log of the current phase has
\* at most this many turns.
MaxSkipLog == 1
\* Most direct calls on a SessionState in one run of SpecState.
MaxStateCalls == 2
\* Most writes of one session's document explored in SpecPersistence.
MaxSaves == 2
\* Most SessionOrchestrator objects constructed in SpecRegistry.
MaxOrchestrators == 3
\* Most calls made on the two sessions of SpecSessions.
MaxSessionCalls == 2

----------------------------------------------------------------------------
\* Types of state/session_state.py.

EVALUATOR == "evaluator"
TEACHER == "teacher"
QUIZ == "quiz"
REVIEW == "review"
Phase == {EVALUATOR, TEACHER, QUIZ, REVIEW}

None == <<>>
Some(x) == <<x>>

Levels == {"low", "medium", "high"}
\* The levels of the plans a stored session starts with.
SeededLevels == {"low"}
Difficulties == {"easy", "medium", "hard"}

EvaluationPlan(student_level, teaching_focus) ==
    [student_level |-> student_level, teaching_focus |-> teaching_focus]

\* score_percentage is a float in the code; it is kept exact as a fraction.
Percentage(correct, total) ==
    IF total > 0 THEN [num |-> correct * 100, den |-> total]
    ELSE [num |-> 0, den |-> 1]

QuizResult(total, correct, time_seconds) ==
    [total_questions |-> total,
     correct_answers |-> correct,
     score_percentage |-> Percentage(correct, total),
     time_taken_seconds |-> time_seconds]

SessionState ==
    [phase |-> EVALUATOR,
     evaluator_conversation |-> <<>>,
     plan |-> None,
     teacher_conversation |-> <<>>,
     teacher_questions_asked |-> 0,
     teacher_correct |-> 0,
     current_difficulty |-> "medium",
     quiz_conversation |-> <<>>,
     quiz_result |-> None,
     review_conversation |-> <<>>]

\* add_message inserting the turn at the head of the log.
add_message_prepends(s, phase, role) ==
    CASE phase = EVALUATOR ->
           [s EXCEPT !.evaluator_conversation = <<role>> \o @]
      [] phase = TEACHER ->
           [s EXCEPT !.teacher_conversation = <<role>> \o @]
      [] phase = QUIZ ->
           [s EXCEPT !.quiz_conversation = <<role>> \o @]
      [] phase = REVIEW ->
           [s EXCEPT !.review_conversation = <<role>> \o @]
      [] OTHER -> s

\* SessionState.add_message
add_message(s, phase, role) ==
    CASE phase = EVALUATOR ->
           [s EXCEPT !.evaluator_conversation = Append(@, role)]
      [] phase = TEACHER ->
           [s EXCEPT !.teacher_conversation = Append(@, role)]
      [] phase = QUIZ ->
           [s EXCEPT !.quiz_conversation = Append(@, role)]
      [] phase = REVIEW ->
           [s EXCEPT !.review_conversation = Append(@, role)]
      [] OTHER -> s

LevelDifficulty(student_level) ==
    CASE student_level = "low" -> "easy"
      [] student_level = "medium" -> "medium"
      [] student_level = "high" -> "hard"
      [] OTHER -> "medium"

\* set_plan without the assignment of current_difficulty.
set_plan_keeps_difficulty(s, student_level, teaching_focus) ==
    [s EXCEPT !.plan = Some(EvaluationPlan(student_level, teaching_focus))]

set_plan(s, student_level, teaching_focus) ==
    [s EXCEPT !.plan = Some(EvaluationPlan(student_level, teaching_focus)),
              !.current_difficulty = LevelDifficulty(student_level)]

transition_to(s, phase) == [s EXCEPT !.phase = phase]

set_quiz_result(s, total, correct, time_seconds) ==
    [s EXCEPT !.quiz_result = Some(QuizResult(total, correct, time_seconds))]

----------------------------------------------------------------------------
\* The environment: replies of the reasoning gateway and of the persistence sink.

\* A reply to a teacher prompt (teacher/agent.py): the call raised (ok = FALSE),
\* the content did not parse, or a JSON object with the two fields the
\* bookkeeping reads.
TeacherReplies ==
    {[ok |-> FALSE, parsed |-> FALSE, asked_question |-> FALSE,
      should_adjust_difficulty |-> "stay"],
     [ok |-> TRUE, parsed |-> FALSE, asked_question |-> FALSE,
      should_adjust_difficulty |-> "stay"]}
    \cup [ok : {TRUE}, parsed : {TRUE}, asked_question : BOOLEAN,
          should_adjust_difficulty : {"up", "down", "stay"}]

IntroReplies == {r \in TeacherReplies : r.should_adjust_difficulty = "stay"}

\* What the generated quiz says of a question's correct_answer and
\* explanation.
AnswerKeys == {"key 1", "key 2"}

\* A reply to the quiz-generation prompt: the call raised, or n questions
\* whose correct answers and explanations are those of key.
QuizReplies ==
    {[ok |-> FALSE, n |-> 0, key |-> "key 1"],
     [ok |-> TRUE, n |-> 0, key |-> "key 1"]}
    \cup [ok : {TRUE}, n : 1..MaxQuizQuestions, key : AnswerKeys]

\* A reply to the evaluation prompt: the call raised, or a student_level.
EvaluationLevels == Levels \cup {"intermediate"}
EvaluationReplies ==
    {[ok |-> FALSE, student_level |-> "medium"]}
    \cup [ok : {TRUE}, student_level : EvaluationLevels]

\* A reply to the quiz-review prompt: the call raised (or the reply lacks what
\* _generate_quiz_review reads), or a score, with or without a summary.
ReviewReplies ==
    {[ok |-> FALSE, score |-> 0, has_summary |-> FALSE]}
    \cup [ok : {TRUE}, score : 0..MaxScore, has_summary : BOOLEAN]

PersistOutcomes == {"saved", "not_saved", "raised"}

\* safe_json_parse with the default the teacher passes: no asked_question,
\* no should_adjust_difficulty.
safe_json_parse(reply) ==
    IF reply.parsed THEN reply
    ELSE [reply EXCEPT !.asked_question = FALSE,
                       !.should_adjust_difficulty = "stay"]

----------------------------------------------------------------------------
\* evaluator/orchestrator.py

EVALUATOR_QUESTIONS == 6

StudentPlanFields ==
    {"student_level", "overall_score", "main_idea_score", "engagement_score",
     "text_type_score", "easy_score", "medium_score", "hard_score",
     "strengths", "weaknesses", "recommended_difficulty", "focus_areas",
     "interests", "teaching_approach"}

\* yaml.dump(plan.model_dump()): the fields of StudentPlan, nothing else.
plan_yaml(student_level) ==
    [k \in StudentPlanFields |->
        IF k = "student_level" THEN student_level ELSE "value"]

EvaluatorOrchestrator ==
    [current_question |-> 0, answers |-> 0, is_complete |-> FALSE]

\* EvaluatorOrchestrator.process_message on helper e with the gateway's reply:
\* the helper afterwards, the exception raised ("" for none) and the result.
evaluator_process_message(e, reply) ==
    LET e1 == [e EXCEPT !.answers = @ + 1] IN
    IF e.current_question >= EVALUATOR_QUESTIONS
    THEN \* self.questions[self.current_question] in the log line
         [e |-> e1, raised |-> "IndexError", is_complete |-> FALSE,
          gateway_calls |-> 0, plan_data |-> None]
    ELSE LET e2 == [e1 EXCEPT !.current_question = @ + 1] IN
         IF e2.current_question >= EVALUATOR_QUESTIONS
         THEN LET e3 == [e2 EXCEPT !.is_complete = TRUE] IN
              IF reply.ok
              THEN [e |-> e3, raised |-> "", is_complete |-> TRUE,
                    gateway_calls |-> 1,
                    plan_data |-> Some(plan_yaml(reply.student_level))]
              ELSE [e |-> e3, raised |-> "GatewayError", is_complete |-> FALSE,
                    gateway_calls |-> 1, plan_data |-> None]
         ELSE [e |-> e2, raised |-> "", is_complete |-> FALSE,
               gateway_calls |-> 0, plan_data |-> None]

----------------------------------------------------------------------------
\* teacher/agent.py

default_plan == EvaluationPlan("medium", "default focus")

TeacherAgent(plan) ==
    LET p == IF plan # None THEN plan[1] ELSE default_plan IN
    [plan |-> p,
     conversation_history |-> <<>>,
     questions_asked |-> 0,
     current_difficulty |-> LevelDifficulty(p.student_level)]

\* The adjustment without the intermediate level: up goes to hard, down to
\* easy.
adjust_difficulty_to_end(current, should_adjust) ==
    IF should_adjust = "up" THEN "hard"
    ELSE IF should_adjust = "down" THEN "easy"
    ELSE current

\* `if data.get("should_adjust_difficulty") == "up" and ... elif ... "down"`
adjust_difficulty(current, should_adjust) ==
    IF should_adjust = "up" /\ current # "hard"
    THEN (IF current = "easy" THEN "medium" ELSE "hard")
    ELSE IF should_adjust = "down" /\ current # "easy"
    THEN (IF current = "hard" THEN "medium" ELSE "easy")
    ELSE current

\* TeacherAgent.get_intro_message
teacher_get_intro_message(t, reply) ==
    IF ~reply.ok
    THEN [t |-> t, raised |-> "GatewayError"]
    ELSE LET data == safe_json_parse(reply) IN
         [t |-> [t EXCEPT !.conversation_history = Append(@, "assistant"),
                          !.questions_asked =
                              IF data.asked_question THEN @ + 1 ELSE @],
          raised |-> ""]

\* TeacherAgent.process_message
teacher_process_message(t, reply) ==
    LET t1 == [t EXCEPT !.conversation_history = Append(@, "user")] IN
    IF ~reply.ok
    THEN [t |-> t1, raised |-> "GatewayError", fallback |-> FALSE]
    ELSE LET data == safe_json_parse(reply) IN
         [t |-> [t1 EXCEPT
                   !.questions_asked =
                       IF data.asked_question THEN @ + 1 ELSE @,
                   !.current_difficulty =
                       adjust_difficulty(@, data.should_adjust_difficulty),
                   !.conversation_history = Append(@, "assistant")],
          raised |-> "",
          fallback |-> ~reply.parsed]

----------------------------------------------------------------------------
\* quiz/generator.py

DEFAULT_TIME_LIMIT == 300

\* QuizGenerator.generate: question ids are 1..n, in order; answer_key holds
\* each question's correct_answer and explanation.
Quiz(student_level, n, key) ==
    [student_level |-> student_level,
     total_questions |-> n,
     questions |-> [i \in 1..n |-> i],
     answer_key |-> [i \in 1..n |->
                       [correct_answer |-> key, explanation |-> key]],
     time_limit_seconds |-> DEFAULT_TIME_LIMIT]

----------------------------------------------------------------------------
\* persistence/mongodb.py: SessionPersistence.  collection maps a session id
\* to the number of times its document was written; connected_as remembers
\* how the one connection attempt ended ("none" before it).

SessionIds == {"a", "b"}

\* How a connection attempt ends: MONGODB_URI unset, pymongo missing, the
\* ping failing, another exception during setup, or success.
ConnectOutcomes ==
    {"no_uri", "import_error", "connection_failure", "setup_failure",
     "connected"}

SessionPersistence ==
    [client |-> FALSE, initialized |-> FALSE, available |-> FALSE,
     connected_as |-> "none", collection |-> [id \in SessionIds |-> 0]]

\* _ensure_connected attempting the connection on every call.
ensure_connected_retries(p, co) ==
    [p |-> [p EXCEPT !.initialized = TRUE,
                     !.client = @ \/ co \in {"connection_failure",
                                              "setup_failure", "connected"},
                     !.available = (co = "connected"),
                     !.connected_as = IF @ = "none" THEN co ELSE @],
     ret |-> (co = "connected")]

\* SessionPersistence._ensure_connected, the attempt ending as co.
ensure_connected(p, co) ==
    IF p.initialized
    THEN [p |-> p, ret |-> p.available]
    ELSE LET p1 == [p EXCEPT !.initialized = TRUE, !.connected_as = co] IN
         CASE co \in {"no_uri", "import_error"} ->
                [p |-> p1, ret |-> FALSE]
           [] co \in {"connection_failure", "setup_failure"} ->
                [p |-> [p1 EXCEPT !.client = TRUE], ret |-> FALSE]
           [] OTHER ->
                [p |-> [p1 EXCEPT !.client = TRUE, !.available = TRUE],
                 ret |-> TRUE]

\* SessionPersistence.save_session of the document of session_id ("" when
\* the data carries none); write_ok is whether update_one returns.
save_session(p, session_id, co, write_ok) ==
    LET e == ensure_connected(p, co) IN
    IF ~e.ret THEN [p |-> e.p, ret |-> FALSE]
    ELSE IF session_id = "" THEN [p |-> e.p, ret |-> FALSE]
    ELSE IF ~write_ok THEN [p |-> e.p, ret |-> FALSE]
    ELSE [p |-> [e.p EXCEPT !.collection[session_id] = @ + 1], ret |-> TRUE]

\* SessionPersistence.close
close(p) ==
    IF p.client THEN [p EXCEPT !.client = FALSE, !.available = FALSE] ELSE p

----------------------------------------------------------------------------
\* orchestrator.py: SessionOrchestrator.  An orchestrator o is the record
\* [state, evaluator, teacher, quiz]; a handler maps o and the environment's
\* replies to the orchestrator afterwards and what the call returned.

PHASE_ORDER == <<EVALUATOR, TEACHER, QUIZ, REVIEW>>
TEACHER_QUESTIONS_BEFORE_QUIZ == 5

PhaseIndex(p) == CHOOSE i \in 1..Len(PHASE_ORDER) : PHASE_ORDER[i] = p

\* What a call returned: the keys of the returned dict (those a call does not
\* return keep their default), the exception it raised ("" for a normal
\* return), and what it did to the environment.
Returned(op, o) ==
    [op |-> op, target |-> "", answers |-> <<>>, before |-> o.state,
     had_quiz |-> o.quiz # None,
     raised |-> "", response |-> "", phase |-> "", plan |-> None,
     transitioned |-> FALSE, session_complete |-> FALSE,
     success |-> "absent", error |-> "", show_quiz |-> FALSE,
     quiz_data |-> None, scored |-> <<>>, score |-> 0, total |-> 0,
     percentage |-> Percentage(0, 0),
     gateway_calls |-> 0, persist |-> "not_called"]

get_evaluator(o) ==
    IF o.evaluator = None
    THEN [o EXCEPT !.evaluator = Some(EvaluatorOrchestrator)]
    ELSE o

get_teacher(o) ==
    IF o.teacher # None THEN [o |-> o, raised |-> ""]
    ELSE IF o.state.plan = None THEN [o |-> o, raised |-> "ValueError"]
    ELSE [o |-> [o EXCEPT !.teacher = Some(TeacherAgent(o.state.plan))],
          raised |-> ""]

generate_quiz(o, reply) ==
    IF o.state.plan = None
    THEN \* self.state.plan.model_dump() on None
         [o |-> o, raised |-> "AttributeError", gateway_calls |-> 0]
    ELSE IF ~reply.ok
    THEN [o |-> o, raised |-> "GatewayError", gateway_calls |-> 1]
    ELSE [o |-> [o EXCEPT !.quiz =
                     Some(Quiz(o.state.plan[1].student_level, reply.n,
                               reply.key))],
          raised |-> "", gateway_calls |-> 1]

\* The quiz_data payload carrying each question's correct_answer as well.
quiz_payload_with_answers(q) ==
    [total_questions |-> q.total_questions,
     time_limit_seconds |-> q.time_limit_seconds,
     questions |-> [i \in 1..Len(q.questions) |->
                       [id |-> q.questions[i],
                        keys |-> {"id", "question", "difficulty",
                                  "correct_answer"},
                        correct_answer |-> q.answer_key[i].correct_answer]]]

\* The caller-visible projection of the quiz (the quiz_data payload).
quiz_payload(q) ==
    [total_questions |-> q.total_questions,
     time_limit_seconds |-> q.time_limit_seconds,
     questions |-> [i \in 1..Len(q.questions) |->
                       [id |-> q.questions[i],
                        keys |-> {"id", "question", "difficulty"}]]]

\* get_intro without the add_message of the intro.
get_intro_silent(o, ir, qr) ==
    [o |-> o, raised |-> "", response |-> "intro", gateway_calls |-> 0]

\* SessionOrchestrator.get_intro
get_intro(o, ir, qr) ==
    LET phase == o.state.phase IN
    CASE phase = EVALUATOR ->
           LET o1 == get_evaluator(o) IN
           [o |-> [o1 EXCEPT !.state = add_message(@, EVALUATOR, "assistant")],
            raised |-> "", response |-> "first question", gateway_calls |-> 0]
      [] phase = TEACHER ->
           LET g == get_teacher(o) IN
           IF g.raised # ""
           THEN [o |-> g.o, raised |-> g.raised, response |-> "",
                 gateway_calls |-> 0]
           ELSE LET m == teacher_get_intro_message(g.o.teacher[1], ir) IN
                IF m.raised # ""
                THEN [o |-> g.o, raised |-> m.raised, response |-> "",
                      gateway_calls |-> 1]
                ELSE [o |-> [g.o EXCEPT
                               !.teacher = Some(m.t),
                               !.state = add_message(@, TEACHER, "assistant")],
                      raised |-> "", response |-> "teacher intro",
                      gateway_calls |-> 1]
      [] phase = QUIZ ->
           LET g == IF o.quiz = None THEN generate_quiz(o, qr)
                    ELSE [o |-> o, raised |-> "", gateway_calls |-> 0] IN
           IF g.raised # ""
           THEN [o |-> g.o, raised |-> g.raised, response |-> "",
                 gateway_calls |-> g.gateway_calls]
           ELSE IF g.o.quiz[1].total_questions = 0
           THEN \* self._quiz.questions[0] in _build_quiz_intro
                [o |-> g.o, raised |-> "IndexError", response |-> "",
                 gateway_calls |-> g.gateway_calls]
           ELSE [o |-> [g.o EXCEPT !.state = add_message(@, QUIZ, "assistant")],
                 raised |-> "", response |-> "quiz intro",
                 gateway_calls |-> g.gateway_calls]
      [] OTHER ->
           [o |-> [o EXCEPT !.state = add_message(@, REVIEW, "assistant")],
            raised |-> "", response |-> "review intro", gateway_calls |-> 0]

\* The threshold test with > in place of >=.
ready_for_quiz_late(questions_asked) ==
    questions_asked > TEACHER_QUESTIONS_BEFORE_QUIZ

\* `if self.state.teacher_questions_asked >= self.TEACHER_QUESTIONS_BEFORE_QUIZ`
ready_for_quiz(questions_asked) ==
    questions_asked >= TEACHER_QUESTIONS_BEFORE_QUIZ

\* SessionOrchestrator._process_evaluator
process_evaluator(o, r0, ev, ir) ==
    LET o1 == [o EXCEPT !.state = add_message(@, EVALUATOR, "user")]
        o2 == get_evaluator(o1)
        res == evaluator_process_message(o2.evaluator[1], ev)
        o3 == [o2 EXCEPT !.evaluator = Some(res.e)]
        r1 == [r0 EXCEPT !.gateway_calls = res.gateway_calls]
    IN
    IF res.raised # ""
    THEN [o |-> o3, ret |-> [r1 EXCEPT !.raised = res.raised]]
    ELSE IF res.is_complete
    THEN LET plan_data == res.plan_data[1] IN
         IF "teaching_focus" \notin DOMAIN plan_data
         THEN \* plan_data["teaching_focus"]
              [o |-> o3, ret |-> [r1 EXCEPT !.raised = "KeyError"]]
         ELSE IF plan_data["student_level"] \notin Levels
         THEN \* EvaluationPlan.student_level is Literal["low", "medium", "high"]
              [o |-> o3, ret |-> [r1 EXCEPT !.raised = "ValidationError"]]
         ELSE LET s1 == set_plan(o3.state, plan_data["student_level"],
                                 plan_data["teaching_focus"])
                  s2 == add_message(s1, EVALUATOR, "assistant")
                  s3 == transition_to(s2, TEACHER)
                  g == get_teacher([o3 EXCEPT !.state = s3])
                  m == teacher_get_intro_message(g.o.teacher[1], ir)
                  r2 == [r1 EXCEPT !.gateway_calls = @ + 1]
              IN
              IF m.raised # ""
              THEN [o |-> g.o, ret |-> [r2 EXCEPT !.raised = m.raised]]
              ELSE LET o4 == [g.o EXCEPT
                                !.teacher = Some(m.t),
                                !.state = add_message(@, TEACHER, "assistant")]
                   IN [o |-> o4,
                       ret |-> [r2 EXCEPT !.response = "thank you + teacher intro",
                                          !.phase = "teacher",
                                          !.plan = o4.state.plan,
                                          !.transitioned = TRUE]]
    ELSE [o |-> [o3 EXCEPT !.state = add_message(@, EVALUATOR, "assistant")],
          ret |-> [r1 EXCEPT !.response = "next question",
                             !.phase = "evaluator"]]

\* SessionOrchestrator._process_teacher
process_teacher(o, r0, tr, qr) ==
    LET o1 == [o EXCEPT !.state = add_message(@, TEACHER, "user")]
        g == get_teacher(o1)
    IN
    IF g.raised # ""
    THEN [o |-> g.o, ret |-> [r0 EXCEPT !.raised = g.raised]]
    ELSE
    LET m == teacher_process_message(g.o.teacher[1], tr)
        o2 == [g.o EXCEPT !.teacher = Some(m.t)]
        r1 == [r0 EXCEPT !.gateway_calls = 1]
    IN
    IF m.raised # ""
    THEN [o |-> o2, ret |-> [r1 EXCEPT !.raised = m.raised]]
    ELSE
    LET s2 == [o2.state EXCEPT
                 !.teacher_questions_asked = m.t.questions_asked,
                 !.current_difficulty = m.t.current_difficulty]
        o3 == [o2 EXCEPT !.state = add_message(s2, TEACHER, "assistant")]
        response == IF m.fallback THEN "fallback" ELSE "message"
    IN
    IF ready_for_quiz(o3.state.teacher_questions_asked)
    THEN LET q == generate_quiz(o3, qr)
             r2 == [r1 EXCEPT !.gateway_calls = @ + q.gateway_calls]
         IN
         IF q.raised # ""
         THEN [o |-> q.o, ret |-> [r2 EXCEPT !.raised = q.raised]]
         ELSE [o |-> [q.o EXCEPT !.state = transition_to(@, QUIZ)],
               ret |-> [r2 EXCEPT !.response = response,
                                  !.phase = "quiz",
                                  !.plan = q.o.state.plan,
                                  !.transitioned = TRUE,
                                  !.show_quiz = TRUE,
                                  !.quiz_data = Some(quiz_payload(q.o.quiz[1]))]]
    ELSE [o |-> o3,
          ret |-> [r1 EXCEPT !.response = response,
                             !.phase = "teacher",
                             !.plan = o3.state.plan]]

\* _process_teacher up to its gateway call: the user turn is in the log and
\* in the agent's history, and the call is suspended in the gateway.
process_teacher_begin(o) ==
    LET g == get_teacher([o EXCEPT !.state = add_message(@, TEACHER, "user")])
    IN IF g.raised # "" THEN g
       ELSE [o |-> [g.o EXCEPT !.teacher[1].conversation_history =
                                   Append(@, "user")],
             raised |-> ""]

\* _process_teacher from the gateway's reply to its return or to the gateway
\* call of _generate_quiz: the agent's bookkeeping, the copy of its counters
\* into the state, the assistant turn, the threshold test.
process_teacher_reply(o, tr) ==
    IF ~tr.ok THEN [o |-> o, raised |-> "GatewayError", ready |-> FALSE]
    ELSE LET data == safe_json_parse(tr)
             t == [o.teacher[1] EXCEPT
                     !.questions_asked =
                         IF data.asked_question THEN @ + 1 ELSE @,
                     !.current_difficulty =
                         adjust_difficulty(@, data.should_adjust_difficulty),
                     !.conversation_history = Append(@, "assistant")]
             s == [o.state EXCEPT
                     !.teacher_questions_asked = t.questions_asked,
                     !.current_difficulty = t.current_difficulty]
             o1 == [o EXCEPT !.teacher = Some(t),
                             !.state = add_message(s, TEACHER, "assistant")]
         IN [o |-> o1, raised |-> "",
             ready |-> ready_for_quiz(o1.state.teacher_questions_asked)]

\* _process_teacher from the reply of the quiz generation to its return.
process_teacher_quiz(o, qr) ==
    LET q == generate_quiz(o, qr) IN
    IF q.raised # "" THEN [o |-> q.o, raised |-> q.raised]
    ELSE [o |-> [q.o EXCEPT !.state = transition_to(@, QUIZ)], raised |-> ""]

\* _process_quiz reporting a transition.
process_quiz_transitioned(o, r0) ==
    [o |-> o,
     ret |-> [r0 EXCEPT !.response = "use the quiz interface",
                        !.phase = "quiz",
                        !.plan = o.state.plan,
                        !.transitioned = TRUE,
                        !.show_quiz = TRUE]]

\* _process_quiz reporting the session complete.
process_quiz_completes(o, r0) ==
    [o |-> o,
     ret |-> [r0 EXCEPT !.response = "use the quiz interface",
                        !.phase = "quiz",
                        !.plan = o.state.plan,
                        !.session_complete = TRUE,
                        !.show_quiz = TRUE]]

\* SessionOrchestrator._process_quiz
process_quiz(o, r0) ==
    [o |-> o,
     ret |-> [r0 EXCEPT !.response = "use the quiz interface",
                        !.phase = "quiz",
                        !.plan = o.state.plan,
                        !.show_quiz = TRUE]]

\* _persist_session without its try/except: a raising sink reaches the caller.
persist_session_unguarded(po) == IF po = "raised" THEN "Exception" ELSE ""

\* SessionOrchestrator._persist_session with the sink's outcome po: the
\* exception that reaches the caller ("" for none).
persist_session(po) == ""

\* SessionOrchestrator._process_review
process_review(o, r0, po) ==
    LET s1 == add_message(o.state, REVIEW, "user")
        s2 == add_message(s1, REVIEW, "assistant")
        surfaced == persist_session(po)
        r1 == [r0 EXCEPT !.persist = po]
    IN IF surfaced # ""
       THEN [o |-> [o EXCEPT !.state = s2],
             ret |-> [r1 EXCEPT !.raised = surfaced]]
       ELSE [o |-> [o EXCEPT !.state = s2],
             ret |-> [r1 EXCEPT !.response = "session is complete",
                                !.phase = "review",
                                !.plan = o.state.plan,
                                !.session_complete = TRUE]]

\* SessionOrchestrator.process_message
process_message(o, ev, ir, tr, qr, po) ==
    LET phase == o.state.phase
        r0 == Returned("process_message", o)
    IN
    CASE phase = EVALUATOR -> process_evaluator(o, r0, ev, ir)
      [] phase = TEACHER -> process_teacher(o, r0, tr, qr)
      [] phase = QUIZ -> process_quiz(o, r0)
      [] OTHER -> process_review(o, r0, po)

\* `next((q for q in self._quiz.questions if q.id == q_id), None)`
is_quiz_question(q, q_id) ==
    \E i \in 1..Len(q.questions) : q.questions[i] = q_id

\* submit_quiz without the `continue` on an unknown question_id.
qa_pairs_keeps_all(q, answers) == answers

\* The answers submit_quiz keeps for review: those of a question of the quiz.
qa_pairs(q, answers) ==
    SelectSeq(answers, LAMBDA q_id : is_quiz_question(q, q_id))

\* The percentage without the `if total > 0` guard.
submit_percentage_unguarded(correct_count, total) ==
    [num |-> correct_count * 100, den |-> total]

\* `percentage = (correct_count / total * 100) if total > 0 else 0`
submit_percentage(correct_count, total) ==
    IF total > 0 THEN [num |-> correct_count * 100, den |-> total]
    ELSE [num |-> 0, den |-> 1]

\* submit_quiz without the guard: the first use of self._quiz raises.
submit_without_quiz_raises(o, r0) ==
    [o |-> o, ret |-> [r0 EXCEPT !.raised = "AttributeError"]]

\* `if not self._quiz: return {"error": "No quiz available"}`
submit_without_quiz(o, r0) ==
    [o |-> o, ret |-> [r0 EXCEPT !.error = "No quiz available"]]

\* SessionOrchestrator.submit_quiz
submit_quiz(o, answers, rv, po) ==
    LET r0 == Returned("submit_quiz", o) IN
    IF o.quiz = None
    THEN submit_without_quiz(o, r0)
    ELSE
    LET pairs == qa_pairs(o.quiz[1], answers)
        r1 == [r0 EXCEPT !.answers = answers, !.scored = pairs,
                         !.gateway_calls = 1]
    IN
    IF ~rv.ok
    THEN [o |-> o, ret |-> [r1 EXCEPT !.raised = "GatewayError"]]
    ELSE
    LET correct_count == rv.score
        total == Len(pairs)
        percentage == submit_percentage(correct_count, total)
        s1 == set_quiz_result(o.state, total, correct_count, 0)
        o1 == [o EXCEPT !.state = transition_to(s1, REVIEW)]
        r2 == [r1 EXCEPT !.persist = po]
        surfaced == persist_session(po)
    IN
    IF surfaced # ""
    THEN [o |-> o1, ret |-> [r2 EXCEPT !.raised = surfaced]]
    ELSE IF ~rv.has_summary
    THEN \* review["summary"], after the state was updated
         [o |-> o1, ret |-> [r2 EXCEPT !.raised = "KeyError"]]
    ELSE [o |-> o1,
          ret |-> [r2 EXCEPT !.success = "true",
                             !.phase = "review",
                             !.score = correct_count,
                             !.total = total,
                             !.percentage = percentage]]

\* The test refusing only the current phase (an earlier target passes).
is_not_forward_same_only(target_idx, current_idx) == target_idx = current_idx

\* The test with < in place of <= (the current phase passes).
is_not_forward_strict(target_idx, current_idx) == target_idx < current_idx

\* `if target_idx <= current_idx`
is_not_forward(target_idx, current_idx) == target_idx <= current_idx

\* SessionOrchestrator.skip_to_phase
skip_to_phase(o, target_phase, ir, qr) ==
    LET r0 == [Returned("skip_to_phase", o) EXCEPT !.target = target_phase]
        current_idx == PhaseIndex(o.state.phase)
        target_idx == PhaseIndex(target_phase)
    IN
    IF is_not_forward(target_idx, current_idx)
    THEN [o |-> o,
          ret |-> [r0 EXCEPT !.success = "false", !.error = "Cannot go back"]]
    ELSE LET o1 == [o EXCEPT !.state = transition_to(@, target_phase)]
             intro == get_intro(o1, ir, qr)
             r1 == [r0 EXCEPT !.gateway_calls = intro.gateway_calls]
         IN
         IF intro.raised # ""
         THEN [o |-> intro.o, ret |-> [r1 EXCEPT !.raised = intro.raised]]
         ELSE [o |-> intro.o,
               ret |-> [r1 EXCEPT !.success = "true",
                                  !.response = intro.response,
                                  !.phase = target_phase]]

\* A SessionOrchestrator constructed on a new SessionState, whatever the
\* store holds under the id.
SessionOrchestrator_on_new_state(s) ==
    [state |-> SessionState, evaluator |-> None, teacher |-> None,
     quiz |-> None]

\* create_orchestrator: a new SessionOrchestrator for the session;
\* SessionStore.get_or_create hands it the SessionState the store holds.
SessionOrchestrator(s) ==
    [state |-> s, evaluator |-> None, teacher |-> None, quiz |-> None]

\* The module-level registry `_orchestrators` and the SessionStore, both
\* empty: per session id, the registered SessionOrchestrator (the number of
\* the object and its helper flows) and the stored SessionState.
Registry ==
    [orchestrators |-> [id \in SessionIds |-> None],
     store |-> [id \in SessionIds |-> None],
     allocated |-> 0]

\* The callers that use the registry and the sessions concurrently.
Callers == {"caller 1", "caller 2"}

\* A caller that is in no call and holds nothing.
Idle ==
    [pc |-> "idle", session_id |-> "", built |-> None, result |-> None,
     seen |-> None, generated |-> FALSE, transitioned |-> FALSE]

\* SessionOrchestrator.__init__: object number n, no helper flow yet.
NewOrchestrator(n) ==
    [object |-> n, evaluator |-> None, teacher |-> None, quiz |-> None]

\* SessionStore.get_or_create
get_or_create(store, session_id) ==
    IF store[session_id] = None
    THEN [store EXCEPT ![session_id] = Some(SessionState)]
    ELSE store

\* Every session's state becoming that of session_id: one SessionState
\* object behind all the ids.
with_session_shared(reg, session_id, o) ==
    [reg EXCEPT
       !.store = [id \in SessionIds |-> Some(o.state)],
       !.orchestrators[session_id] =
           Some([@[1] EXCEPT !.evaluator = o.evaluator,
                             !.teacher = o.teacher,
                             !.quiz = o.quiz])]

\* The registry after a call left the orchestrator of session_id as o:
\* self.state is the SessionState object the store holds for that id, the
\* helper flows are attributes of the registered orchestrator.
with_session(reg, session_id, o) ==
    [reg EXCEPT
       !.store[session_id] = Some(o.state),
       !.orchestrators[session_id] =
           Some([@[1] EXCEPT !.evaluator = o.evaluator,
                             !.teacher = o.teacher,
                             !.quiz = o.quiz])]

\* get_orchestrator(session_id) of a registered session, with its state.
session_orchestrator(reg, session_id) ==
    [state |-> reg.store[session_id][1],
     evaluator |-> reg.orchestrators[session_id][1].evaluator,
     teacher |-> reg.orchestrators[session_id][1].teacher,
     quiz |-> reg.orchestrators[session_id][1].quiz]

----------------------------------------------------------------------------
\* The state machine.

Orchestrator ==
    [state |-> state, evaluator |-> evaluator, teacher |-> teacher, quiz |-> quiz]

WithinBounds(o) ==
    /\ Len(o.state.evaluator_conversation) <= MaxEvalLog
    /\ Len(o.state.teacher_conversation) <= MaxTeacherLog
    /\ Len(o.state.quiz_conversation) <= MaxQuizLog
    /\ Len(o.state.review_conversation) <= MaxReviewLog

\* A call during which the environment failed.
is_fault(ret, rv) ==
    \/ ret.raised = "GatewayError"
    \/ ret.persist \in {"not_saved", "raised"}
    \/ (ret.op = "submit_quiz" /\ rv.ok /\ ~rv.has_summary)

\* The call's outcome becomes the state, within the explored budget.
Becomes(o, ret, u) ==
    /\ WithinBounds(o)
    /\ u.detours <= MaxDetours
    /\ u.submits <= MaxSubmits
    /\ state' = o.state
    /\ evaluator' = o.evaluator
    /\ teacher' = o.teacher
    /\ quiz' = o.quiz
    /\ last' = ret
    /\ used' = u
    /\ UNCHANGED <<persistence, registry, callers>>

\* The replies a call can consume; one fixed reply where none is read.
Unread(S) == {CHOOSE r \in S : ~r.ok}

AnswerLists ==
    UNION {[1..n -> 1..(MaxQuizQuestions + 1)] : n \in 0..MaxAnswers}

\* Whether a call reads the teacher's / the quiz generator's reply.
reads_teacher(o) == o.teacher # None \/ o.state.plan # None
reads_quiz_generator(o) == o.quiz = None /\ o.state.plan # None

\* get_conversation of the current phase.
current_log(s) ==
    CASE s.phase = EVALUATOR -> s.evaluator_conversation
      [] s.phase = TEACHER -> s.teacher_conversation
      [] s.phase = QUIZ -> s.quiz_conversation
      [] OTHER -> s.review_conversation

NoReview == CHOOSE r \in ReviewReplies : ~r.ok

\* The session as the store holds it when the orchestrator is constructed:
\* new, or with a plan assigned through SessionState.set_plan.
Init ==
    /\ state \in {SessionState}
                 \cup {set_plan(SessionState, l, "focus") : l \in SeededLevels}
    /\ evaluator = None
    /\ teacher = None
    /\ quiz = None
    /\ last = Returned("init", SessionOrchestrator(SessionState))
    /\ used = [detours |-> 0, submits |-> 0, state_calls |-> 0]
    /\ persistence = SessionPersistence
    /\ registry = Registry
    /\ callers = [c \in Callers |-> Idle]

GetIntro ==
    \E ir \in (IF state.phase = TEACHER /\ reads_teacher(Orchestrator)
               THEN IntroReplies ELSE Unread(IntroReplies)),
       qr \in (IF state.phase = QUIZ /\ reads_quiz_generator(Orchestrator)
               THEN QuizReplies ELSE Unread(QuizReplies)) :
        LET r == get_intro(Orchestrator, ir, qr) IN
        Becomes(r.o,
                [Returned("get_intro", Orchestrator) EXCEPT
                    !.raised = r.raised,
                    !.response = r.response,
                    !.phase = IF r.raised = "" THEN r.o.state.phase ELSE "",
                    !.plan = IF r.raised = "" THEN r.o.state.plan ELSE None,
                    !.gateway_calls = r.gateway_calls],
                [used EXCEPT !.detours = @ + 1])

ProcessMessage ==
    \E ev \in (IF state.phase = EVALUATOR
                  /\ get_evaluator(Orchestrator).evaluator[1].current_question
                       = EVALUATOR_QUESTIONS - 1
               THEN EvaluationReplies ELSE Unread(EvaluationReplies)),
       ir \in (IF state.phase = EVALUATOR
                  /\ "teaching_focus" \in StudentPlanFields
               THEN IntroReplies ELSE Unread(IntroReplies)),
       tr \in (IF state.phase = TEACHER /\ reads_teacher(Orchestrator)
               THEN TeacherReplies ELSE Unread(TeacherReplies)),
       po \in (IF state.phase = REVIEW THEN PersistOutcomes
               ELSE {"not_called"}) :
    \E qr \in (IF state.phase = TEACHER /\ reads_teacher(Orchestrator) /\ tr.ok
                  /\ ready_for_quiz(
                       teacher_process_message(
                           get_teacher(Orchestrator).o.teacher[1], tr
                       ).t.questions_asked)
               THEN QuizReplies ELSE Unread(QuizReplies)) :
        LET r == process_message(Orchestrator, ev, ir, tr, qr, po) IN
        Becomes(r.o, r.ret,
                IF is_fault(r.ret, NoReview)
                THEN [used EXCEPT !.detours = @ + 1] ELSE used)

SubmitQuiz ==
    \E answers \in (IF quiz # None THEN AnswerLists ELSE {<<>>}),
       rv \in (IF quiz # None THEN ReviewReplies ELSE Unread(ReviewReplies)) :
    \E po \in (IF quiz # None /\ rv.ok THEN PersistOutcomes
               ELSE {"not_called"}) :
        LET r == submit_quiz(Orchestrator, answers, rv, po) IN
        Becomes(r.o, r.ret,
                [used EXCEPT
                    !.detours = IF is_fault(r.ret, rv) THEN @ + 1 ELSE @,
                    !.submits = IF quiz # None THEN @ + 1 ELSE @])

SkipToPhase ==
    \E target_phase \in Phase :
    \E ir \in (IF target_phase = TEACHER /\ reads_teacher(Orchestrator)
                  /\ ~is_not_forward(PhaseIndex(target_phase),
                                     PhaseIndex(state.phase))
               THEN IntroReplies ELSE Unread(IntroReplies)),
       qr \in (IF target_phase = QUIZ /\ reads_quiz_generator(Orchestrator)
                  /\ ~is_not_forward(PhaseIndex(target_phase),
                                     PhaseIndex(state.phase))
               THEN QuizReplies ELSE Unread(QuizReplies)) :
        LET r == skip_to_phase(Orchestrator, target_phase, ir, qr) IN
        /\ \/ is_not_forward(PhaseIndex(target_phase), PhaseIndex(state.phase))
           \/ Len(current_log(state)) <= MaxSkipLog
        /\ Becomes(r.o, r.ret,
                   IF is_fault(r.ret, NoReview)
                   THEN [used EXCEPT !.detours = @ + 1] ELSE used)

CreateOrchestrator ==
    Becomes(SessionOrchestrator(state),
            Returned("create_orchestrator", Orchestrator),
            [used EXCEPT !.detours = @ + 1])

Next ==
    \/ GetIntro
    \/ ProcessMessage
    \/ SubmitQuiz
    \/ SkipToPhase
    \/ CreateOrchestrator

Spec == Init /\ [][Next]_vars

----------------------------------------------------------------------------
\* SessionState on its own: the mutators of state/session_state.py called
\* directly on a new SessionState, as tests/unit/test_session_state.py does.

InitState ==
    /\ state = SessionState
    /\ evaluator = None
    /\ teacher = None
    /\ quiz = None
    /\ last = Returned("init", SessionOrchestrator(SessionState))
    /\ used = [detours |-> 0, submits |-> 0, state_calls |-> 0]
    /\ persistence = SessionPersistence
    /\ registry = Registry
    /\ callers = [c \in Callers |-> Idle]

\* A direct call's outcome becomes the state.
StateBecomes(op, arg, s, raised) ==
    /\ used.state_calls < MaxStateCalls
    /\ state' = s
    /\ last' = [Returned(op, Orchestrator) EXCEPT !.target = arg,
                                                  !.raised = raised]
    /\ used' = [used EXCEPT !.state_calls = @ + 1]
    /\ UNCHANGED <<evaluator, teacher, quiz, persistence, registry, callers>>

AddMessage ==
    \E phase \in Phase, role \in {"user", "assistant"} :
        StateBecomes("add_message", phase, add_message(state, phase, role), "")

\* EvaluationPlan(student_level=...) validates the level before set_plan
\* assigns anything.
SetPlan ==
    \E student_level \in EvaluationLevels :
        IF student_level \in Levels
        THEN StateBecomes("set_plan", student_level,
                          set_plan(state, student_level, "focus"), "")
        ELSE StateBecomes("set_plan", student_level, state, "ValidationError")

TransitionTo ==
    \E phase \in Phase :
        StateBecomes("transition_to", phase, transition_to(state, phase), "")

SetQuizResult ==
    \E total \in 0..MaxAnswers, correct \in 0..MaxScore :
        StateBecomes("set_quiz_result", "",
                     set_quiz_result(state, total, correct, 0), "")

NextState ==
    \/ AddMessage
    \/ SetPlan
    \/ TransitionTo
    \/ SetQuizResult

SpecState == InitState /\ [][NextState]_vars

----------------------------------------------------------------------------
\* SessionPersistence on its own: save_session, is_available and close called
\* on one instance, the environment choosing how the connection attempt and
\* each write end.

\* A call's outcome becomes the instance.
PersistenceBecomes(op, session_id, r) ==
    /\ \A id \in SessionIds : r.p.collection[id] <= MaxSaves
    /\ persistence' = r.p
    /\ last' = [Returned(op, Orchestrator) EXCEPT
                   !.target = session_id,
                   !.success = IF r.ret THEN "true" ELSE "false"]
    /\ UNCHANGED <<state, evaluator, teacher, quiz, used, registry, callers>>

SaveSession ==
    \E session_id \in SessionIds \cup {""}, co \in ConnectOutcomes,
       write_ok \in BOOLEAN :
        PersistenceBecomes("save_session", session_id,
                           save_session(persistence, session_id, co, write_ok))

IsAvailable ==
    \E co \in ConnectOutcomes :
        PersistenceBecomes("is_available", "",
                           ensure_connected(persistence, co))

Close ==
    PersistenceBecomes("close", "", [p |-> close(persistence), ret |-> FALSE])

NextPersistence ==
    \/ SaveSession
    \/ IsAvailable
    \/ Close

SpecPersistence == InitState /\ [][NextPersistence]_vars

----------------------------------------------------------------------------
\* get_orchestrator called concurrently.  Nothing in orchestrator.py
\* serialises the callers, so a call is its steps: the membership test, the
\* construction, the assignment into the dict, the read that is returned.

RegistryBecomes(c, reg, caller) ==
    /\ registry' = reg
    /\ callers' = [callers EXCEPT ![c] = caller]
    /\ UNCHANGED <<state, evaluator, teacher, quiz, last, used, persistence>>

\* A caller enters get_orchestrator(session_id).
GetOrchestratorCall(c) ==
    \E session_id \in SessionIds :
        /\ callers[c].pc \in {"idle", "done"}
        /\ RegistryBecomes(c, registry,
                           [callers[c] EXCEPT !.pc = "check",
                                              !.session_id = session_id,
                                              !.built = None])

\* `if session_id not in _orchestrators:`
GetOrchestratorCheck(c) ==
    /\ callers[c].pc = "check"
    /\ RegistryBecomes(c, registry,
           [callers[c] EXCEPT !.pc =
               IF registry.orchestrators[callers[c].session_id] = None
               THEN "construct" ELSE "return"])

\* `SessionOrchestrator(session_id)`
GetOrchestratorConstruct(c) ==
    /\ callers[c].pc = "construct"
    /\ registry.allocated < MaxOrchestrators
    /\ RegistryBecomes(c,
           [registry EXCEPT
              !.allocated = @ + 1,
              !.store = get_or_create(@, callers[c].session_id)],
           [callers[c] EXCEPT
              !.pc = "assign",
              !.built = Some(NewOrchestrator(registry.allocated + 1))])

\* `_orchestrators[session_id] = ...`
GetOrchestratorAssign(c) ==
    /\ callers[c].pc = "assign"
    /\ RegistryBecomes(c,
           [registry EXCEPT
              !.orchestrators[callers[c].session_id] = callers[c].built],
           [callers[c] EXCEPT !.pc = "return"])

\* `return _orchestrators[session_id]`
GetOrchestratorReturn(c) ==
    /\ callers[c].pc = "return"
    /\ RegistryBecomes(c, registry,
           [callers[c] EXCEPT
              !.pc = "done",
              !.result = registry.orchestrators[callers[c].session_id]])

NextRegistry ==
    \E c \in Callers :
        \/ GetOrchestratorCall(c)
        \/ GetOrchestratorCheck(c)
        \/ GetOrchestratorConstruct(c)
        \/ GetOrchestratorAssign(c)
        \/ GetOrchestratorReturn(c)

SpecRegistry == InitState /\ [][NextRegistry]_vars

----------------------------------------------------------------------------
\* process_message called concurrently on one session in TEACHER.  Nothing
\* in orchestrator.py serialises the callers; a call is suspended in each of
\* its gateway calls, and another call can run meanwhile.

\* The teacher log after the intro and k answered questions.
TeacherTurns(k) ==
    [i \in 1..(2 * k + 1) |-> IF i % 2 = 1 THEN "assistant" ELSE "user"]

\* A session in TEACHER (plan low) in which the teacher asked k questions.
TeacherSession(k) ==
    [set_plan(SessionState, "low", "focus") EXCEPT
       !.phase = TEACHER,
       !.teacher_conversation = TeacherTurns(k),
       !.teacher_questions_asked = k]

InitConcurrent ==
    \E k \in {TEACHER_QUESTIONS_BEFORE_QUIZ - 2,
               TEACHER_QUESTIONS_BEFORE_QUIZ - 1} :
        /\ state = TeacherSession(k)
        /\ evaluator = None
        /\ teacher = Some([TeacherAgent(state.plan) EXCEPT
                              !.questions_asked = k,
                              !.conversation_history = TeacherTurns(k)])
        /\ quiz = None
        /\ last = Returned("init", SessionOrchestrator(SessionState))
        /\ used = [detours |-> 0, submits |-> 0, state_calls |-> 0]
        /\ persistence = SessionPersistence
        /\ registry = Registry
        /\ callers = [c \in Callers |-> Idle]

\* A step of caller c's call leaves the orchestrator as o.
ConcurrentBecomes(c, o, caller) ==
    /\ state' = o.state
    /\ evaluator' = o.evaluator
    /\ teacher' = o.teacher
    /\ quiz' = o.quiz
    /\ callers' = [callers EXCEPT ![c] = caller]
    /\ UNCHANGED <<last, used, persistence, registry>>

\* Caller c enters process_message: the phase is read, and in TEACHER the
\* call runs up to its gateway call.
ProcessMessageCall(c) ==
    /\ callers[c].pc = "idle"
    /\ IF state.phase = TEACHER
       THEN LET b == process_teacher_begin(Orchestrator) IN
            ConcurrentBecomes(c, b.o,
                [callers[c] EXCEPT !.pc = "teacher_gateway",
                                   !.seen = Some(b.o.state)])
       ELSE ConcurrentBecomes(c,
                process_quiz(Orchestrator,
                             Returned("process_message", Orchestrator)).o,
                [callers[c] EXCEPT !.pc = "done"])

\* The gateway answers the teacher prompt of caller c.
TeacherGatewayReturns(c) ==
    \E tr \in TeacherReplies :
        /\ callers[c].pc = "teacher_gateway"
        /\ LET r == process_teacher_reply(Orchestrator, tr) IN
           ConcurrentBecomes(c, r.o,
               [callers[c] EXCEPT
                  !.pc = IF r.raised # "" THEN "raised"
                         ELSE IF r.ready THEN "quiz_gateway" ELSE "done",
                  !.seen = Some(r.o.state)])

\* The gateway answers the quiz-generation prompt of caller c.
QuizGatewayReturns(c) ==
    \E qr \in QuizReplies :
        /\ callers[c].pc = "quiz_gateway"
        /\ LET r == process_teacher_quiz(Orchestrator, qr) IN
           ConcurrentBecomes(c, r.o,
               [callers[c] EXCEPT
                  !.pc = IF r.raised # "" THEN "raised" ELSE "done",
                  !.generated = (r.raised = ""),
                  !.transitioned = (r.raised = "")])

NextConcurrent ==
    \E c \in Callers :
        \/ ProcessMessageCall(c)
        \/ TeacherGatewayReturns(c)
        \/ QuizGatewayReturns(c)

SpecConcurrent == InitConcurrent /\ [][NextConcurrent]_vars

----------------------------------------------------------------------------
\* Two registered sessions, calls made on either in any order.  Here `last`
\* is the last call with the session it was made on and the registry before.

\* The sessions the store can hold when their orchestrators are registered.
StoredSessions ==
    {SessionState, set_plan(SessionState, "low", "focus"),
     TeacherSession(TEACHER_QUESTIONS_BEFORE_QUIZ - 1)}

InitSessions ==
    /\ state = SessionState
    /\ evaluator = None
    /\ teacher = None
    /\ quiz = None
    /\ used = [detours |-> 0, submits |-> 0, state_calls |-> 0]
    /\ persistence = SessionPersistence
    /\ callers = [c \in Callers |-> Idle]
    /\ \E stored \in [SessionIds -> StoredSessions] :
           registry =
               [orchestrators |->
                    [id \in SessionIds |->
                        Some(NewOrchestrator(IF id = "a" THEN 1 ELSE 2))],
                store |-> [id \in SessionIds |-> Some(stored[id])],
                allocated |-> 2]
    /\ last = [call |-> Returned("init", SessionOrchestrator(SessionState)),
               session_id |-> "", before |-> registry]

\* A call on session_id left its orchestrator as o and returned ret.
SessionBecomes(session_id, o, ret) ==
    /\ used.state_calls < MaxSessionCalls
    /\ registry' = with_session(registry, session_id, o)
    /\ last' = [call |-> ret, session_id |-> session_id, before |-> registry]
    /\ used' = [used EXCEPT !.state_calls = @ + 1]
    /\ UNCHANGED <<state, evaluator, teacher, quiz, persistence, callers>>

SessionGetIntro(session_id) ==
    \E ir \in IntroReplies, qr \in QuizReplies :
        LET o == session_orchestrator(registry, session_id)
            r == get_intro(o, ir, qr)
        IN SessionBecomes(session_id, r.o,
               [Returned("get_intro", o) EXCEPT !.raised = r.raised,
                                                !.response = r.response])

SessionProcessMessage(session_id) ==
    LET o == session_orchestrator(registry, session_id) IN
    \E ev \in (IF o.state.phase = EVALUATOR
               THEN EvaluationReplies ELSE Unread(EvaluationReplies)),
       ir \in (IF o.state.phase = EVALUATOR
               THEN IntroReplies ELSE Unread(IntroReplies)),
       tr \in (IF o.state.phase = TEACHER
               THEN TeacherReplies ELSE Unread(TeacherReplies)),
       qr \in (IF o.state.phase = TEACHER
               THEN QuizReplies ELSE Unread(QuizReplies)),
       po \in (IF o.state.phase = REVIEW
               THEN PersistOutcomes ELSE {"not_called"}) :
        LET r == process_message(o, ev, ir, tr, qr, po)
        IN SessionBecomes(session_id, r.o, r.ret)

SessionSubmitQuiz(session_id) ==
    \E answers \in AnswerLists, rv \in ReviewReplies, po \in PersistOutcomes :
        LET r == submit_quiz(session_orchestrator(registry, session_id),
                             answers, rv, po)
        IN SessionBecomes(session_id, r.o, r.ret)

SessionSkipToPhase(session_id) ==
    \E target_phase \in Phase, ir \in IntroReplies, qr \in QuizReplies :
        LET r == skip_to_phase(session_orchestrator(registry, session_id),
                               target_phase, ir, qr)
        IN SessionBecomes(session_id, r.o, r.ret)

NextSessions ==
    \E session_id \in SessionIds :
        \/ SessionGetIntro(session_id)
        \/ SessionProcessMessage(session_id)
        \/ SessionSubmitQuiz(session_id)
        \/ SessionSkipToPhase(session_id)

SpecSessions == InitSessions /\ [][NextSessions]_vars

----------------------------------------------------------------------------
\* The teacher's running tally.  TeacherAgent counts the evaluated answers
\* and the correct ones (teacher/agent.py:77-78, 229-236); SessionState has
\* teacher_correct (session_state.py:63).  Here the agent record carries the
\* two counters as well, and `last` the evaluations received so far.

\* The reply's evaluation.was_correct: true, "partial", false, or "none" for
\* a reply without an evaluation.
Evaluations == {"none", "true", "partial", "false"}

\* correct_answers is counted in halves: 2 is one correct answer, 1 a
\* partial one.
TeacherAgentWithTally(plan) ==
    [plan |-> TeacherAgent(plan).plan,
     conversation_history |-> TeacherAgent(plan).conversation_history,
     questions_asked |-> TeacherAgent(plan).questions_asked,
     current_difficulty |-> TeacherAgent(plan).current_difficulty,
     correct_answers |-> 0,
     total_answers |-> 0]

\* `if "evaluation" in data and data["evaluation"]: ...`
track_evaluation(t, was_correct) ==
    IF was_correct = "none" THEN t
    ELSE [t EXCEPT !.total_answers = @ + 1,
                   !.correct_answers =
                       IF was_correct = "true" THEN @ + 2
                       ELSE IF was_correct = "partial" THEN @ + 1
                       ELSE @]

\* A session in TEACHER after the teacher's intro.
InitTally ==
    /\ state = TeacherSession(0)
    /\ evaluator = None
    /\ teacher = Some([TeacherAgentWithTally(state.plan) EXCEPT
                          !.conversation_history = TeacherTurns(0)])
    /\ quiz = None
    /\ last = [call |-> Returned("init", SessionOrchestrator(SessionState)),
               evaluations |-> <<>>]
    /\ used = [detours |-> 0, submits |-> 0, state_calls |-> 0]
    /\ persistence = SessionPersistence
    /\ registry = Registry
    /\ callers = [c \in Callers |-> Idle]

\* process_message in TEACHER; the gateway's reply carries an evaluation when
\* it is a JSON object.
TallyProcessMessage ==
    /\ state.phase = TEACHER
    /\ Len(state.teacher_conversation) + 2 <= MaxTeacherLog
    /\ \E tr \in TeacherReplies :
       \E was_correct \in (IF tr.ok /\ tr.parsed THEN Evaluations
                           ELSE {"none"}),
          qr \in (IF tr.ok /\ ready_for_quiz(
                        teacher_process_message(teacher[1], tr)
                            .t.questions_asked)
                  THEN QuizReplies ELSE Unread(QuizReplies)) :
           LET r == process_teacher(Orchestrator,
                        Returned("process_message", Orchestrator), tr, qr)
           IN
           /\ state' = r.o.state
           /\ teacher' = Some(track_evaluation(r.o.teacher[1], was_correct))
           /\ quiz' = r.o.quiz
           /\ last' = [call |-> r.ret,
                       evaluations |->
                           IF was_correct = "none" THEN last.evaluations
                           ELSE Append(last.evaluations, was_correct)]
           /\ UNCHANGED <<evaluator, used, persistence, registry, callers>>

NextTally == TallyProcessMessage

SpecTally == InitTally /\ [][NextTally]_vars

----------------------------------------------------------------------------
\* Properties.  `last` holds the call that led to the current state and
\* last.before the SessionState that call started from.

UserTurns(log) == Len(SelectSeq(log, LAMBDA role : role = "user"))

\* C1: over every sequence of get_intro, process_message, submit_quiz,
\* skip_to_phase and create_orchestrator calls, the index of state.phase in
\* PHASE_ORDER after a call is never below its index before the call.
C1_PhaseNeverDecreases ==
    PhaseIndex(state.phase) >= PhaseIndex(last.before.phase)

\* A skip back to EVALUATOR was asked for in REVIEW and the phase stayed.
C1_Witness ==
    /\ last.op = "skip_to_phase"
    /\ last.target = EVALUATOR
    /\ last.before.phase = REVIEW
    /\ state.phase = REVIEW

\* C2: from a fresh session with the gateway succeeding, each of the first
\* five process_message calls returns transitioned = false, phase evaluator
\* and no plan and leaves the phase EVALUATOR; the sixth sets state.plan,
\* moves the phase to TEACHER and returns transitioned = true.
C2_SixAnswersCompleteEvaluator ==
    (/\ last.op = "process_message"
     /\ last.before.phase = EVALUATOR
     /\ last.before.plan = None
     /\ last.raised # "GatewayError"
     /\ evaluator # None
     /\ evaluator[1].answers = UserTurns(state.evaluator_conversation))
    => IF evaluator[1].answers < EVALUATOR_QUESTIONS
       THEN /\ last.raised = ""
            /\ ~last.transitioned
            /\ last.phase = "evaluator"
            /\ last.plan = None
            /\ state.phase = EVALUATOR
       ELSE evaluator[1].answers = EVALUATOR_QUESTIONS
            => /\ last.raised = ""
               /\ last.transitioned
               /\ state.plan # None
               /\ state.phase = TEACHER

C4_PlanSetsDifficulty ==
    (last.op = "set_plan" /\ last.raised = "")
    => /\ state.plan # None
       /\ state.plan[1].student_level = last.target
       /\ last.target = "low" => state.current_difficulty = "easy"
       /\ last.target = "medium" => state.current_difficulty = "medium"
       /\ last.target = "high" => state.current_difficulty = "hard"

\* A plan of level low assigned while the difficulty was hard.
C4_Witness ==
    /\ last.op = "set_plan"
    /\ last.target = "low"
    /\ last.before.current_difficulty = "hard"
    /\ state.current_difficulty = "easy"

\* C5: skip_to_phase to the current phase or an earlier one returns
\* success = false with an error, raises nothing and leaves the whole
\* SessionState as it was.
C5_BackwardSkipRefused ==
    (/\ last.op = "skip_to_phase"
     /\ PhaseIndex(last.target) <= PhaseIndex(last.before.phase))
    => /\ last.raised = ""
       /\ last.success = "false"
       /\ last.error # ""
       /\ state = last.before

\* EVALUATOR asked for from TEACHER, with turns already in the logs.
C5_Witness ==
    /\ last.op = "skip_to_phase"
    /\ last.target = EVALUATOR
    /\ last.before.phase = TEACHER
    /\ last.before.teacher_conversation # <<>>
    /\ last.success = "false"
    /\ state = last.before

\* C6: skip_to_phase(TEACHER) or skip_to_phase(QUIZ) from a session in
\* EVALUATOR with no plan returns success = true without raising.
C6_SkipWithoutPlanSucceeds ==
    (/\ last.op = "skip_to_phase"
     /\ last.target \in {TEACHER, QUIZ}
     /\ last.before.phase = EVALUATOR
     /\ last.before.plan = None)
    => /\ last.raised = ""
       /\ last.success = "true"

\* C7: a submit_quiz call made while the phase is not QUIZ does not succeed
\* and does not change quiz_result.
C7_SubmitOnlyInQuiz ==
    (last.op = "submit_quiz" /\ last.before.phase # QUIZ)
    => /\ last.success # "true"
       /\ state.quiz_result = last.before.quiz_result

\* C8: submit_quiz on an orchestrator holding no quiz returns an error
\* entry without raising, calls neither the gateway nor the persistence
\* sink, and leaves the SessionState as it was.
C8_SubmitWithoutQuiz ==
    (last.op = "submit_quiz" /\ ~last.had_quiz)
    => /\ last.raised = ""
       /\ last.error # ""
       /\ last.success # "true"
       /\ last.gateway_calls = 0
       /\ last.persist = "not_called"
       /\ state = last.before

\* A submission in QUIZ on an orchestrator that holds no quiz.
C8_Witness ==
    /\ last.op = "submit_quiz"
    /\ ~last.had_quiz
    /\ state.phase = QUIZ
    /\ last.error # ""

\* C9: in a submit_quiz call with a quiz, the pairs sent for scoring are the
\* submitted answers whose question_id is the id of a quiz question, in
\* order; an unknown id raises nothing of its own, and the returned total
\* counts the scored pairs only.
C9_UnknownAnswersNotScored ==
    (last.op = "submit_quiz" /\ last.had_quiz)
    => LET ids == {quiz[1].questions[i] : i \in 1..Len(quiz[1].questions)} IN
       /\ last.scored = SelectSeq(last.answers, LAMBDA q_id : q_id \in ids)
       /\ last.raised \in {"", "GatewayError", "KeyError"}
       /\ last.success = "true" => last.total = Len(last.scored)

\* A scored submission one of whose answers names no question of the quiz.
C9_Witness ==
    /\ last.op = "submit_quiz"
    /\ last.success = "true"
    /\ \E i \in 1..Len(last.answers) : last.answers[i] > quiz[1].total_questions
    /\ last.total = 1
    /\ Len(last.answers) = 2

\* C10: when the scored set of a submit_quiz call is empty, the stored
\* quiz_result.score_percentage is 0 and the phase is REVIEW, and the
\* percentage returned is 0; no percentage has a zero denominator.
C10_EmptySubmissionScoresZero ==
    (/\ last.op = "submit_quiz"
     /\ last.had_quiz
     /\ last.raised # "GatewayError"
     /\ last.scored = <<>>)
    => /\ state.phase = REVIEW
       /\ state.quiz_result # None
       /\ state.quiz_result[1].total_questions = 0
       /\ state.quiz_result[1].score_percentage.den > 0
       /\ state.quiz_result[1].score_percentage.num = 0
       /\ last.success = "true"
            => /\ last.total = 0
               /\ last.percentage.den > 0
               /\ last.percentage.num = 0

\* Only unknown ids submitted, and the gateway reporting a score of 1.
C10_Witness ==
    /\ last.op = "submit_quiz"
    /\ last.success = "true"
    /\ last.answers # <<>>
    /\ last.scored = <<>>
    /\ last.score = 1
    /\ state.phase = REVIEW

\* C11: the plan is created exactly once, by the call that completes the
\* evaluator phase: a plan that exists is changed by no call, no call sets
\* one while fewer than 6 answers are collected, and the call that collects
\* the sixth answer with the gateway succeeding leaves a plan.
C11_PlanCreatedOnceAtCompletion ==
    /\ last.before.plan # None => state.plan = last.before.plan
    /\ (last.op # "init" /\ last.before.plan = None /\ state.plan # None)
         => /\ last.op = "process_message"
            /\ evaluator # None
            /\ evaluator[1].answers >= EVALUATOR_QUESTIONS
    /\ (/\ last.op = "process_message"
        /\ last.before.phase = EVALUATOR
        /\ last.raised # "GatewayError"
        /\ evaluator # None
        /\ evaluator[1].is_complete
        /\ evaluator[1].answers = EVALUATOR_QUESTIONS)
         => state.plan # None

\* C12: the QuizResult is created exactly once: a call that starts with a
\* quiz_result leaves it as it is, and in every state that holds a quiz_result
\* a further submit_quiz call, whatever its answers and its scoring reply,
\* would leave it as it is.
C12_QuizResultSetOnce ==
    /\ last.before.quiz_result # None
         => state.quiz_result = last.before.quiz_result
    /\ (state.quiz_result # None /\ quiz # None)
         => \A answers \in AnswerLists, rv \in ReviewReplies :
                submit_quiz(Orchestrator, answers, rv, "saved").o.state.quiz_result
                    = state.quiz_result

\* The SessionState s with one assistant turn appended to the log of its phase.
WithAssistantTurn(s) ==
    CASE s.phase = EVALUATOR ->
           [s EXCEPT !.evaluator_conversation = @ \o <<"assistant">>]
      [] s.phase = TEACHER ->
           [s EXCEPT !.teacher_conversation = @ \o <<"assistant">>]
      [] s.phase = QUIZ ->
           [s EXCEPT !.quiz_conversation = @ \o <<"assistant">>]
      [] s.phase = REVIEW ->
           [s EXCEPT !.review_conversation = @ \o <<"assistant">>]

\* C13: a get_intro call that returns appends exactly one assistant turn to
\* the log of the current phase and changes nothing else of the SessionState
\* (not the phase, not another log); a second call appends a second turn;
\* in EVALUATOR the call leaves the evaluator's question index as it is.
C13_IntroAppendsOneTurn ==
    /\ (last.op = "get_intro" /\ last.raised = "")
         => state = WithAssistantTurn(last.before)
    /\ \A ir \in IntroReplies, qr \in QuizReplies :
         LET r1 == get_intro(Orchestrator, ir, qr)
             r2 == get_intro(r1.o, ir, qr)
         IN /\ (r1.raised = "" /\ r2.raised = "")
                 => r2.o.state = WithAssistantTurn(WithAssistantTurn(state))
            /\ state.phase = EVALUATOR
                 => r1.o.evaluator[1].current_question
                      = IF evaluator = None THEN 0
                        ELSE evaluator[1].current_question

\* A get_intro call in TEACHER whose log already held the intro of the skip.
C13_Witness ==
    /\ last.op = "get_intro"
    /\ last.raised = ""
    /\ last.before.phase = TEACHER
    /\ last.before.teacher_conversation = <<"assistant">>
    /\ state.teacher_conversation = <<"assistant", "assistant">>

\* C14: every process_message call made in REVIEW returns the fixed closing
\* acknowledgment with session_complete = true and transitioned = false and
\* leaves the phase REVIEW; a process_message call made in another phase
\* never returns session_complete = true.
C14_ReviewIsTerminal ==
    /\ (last.op = "process_message" /\ last.before.phase = REVIEW)
         => /\ last.raised = ""
            /\ last.response = "session is complete"
            /\ last.session_complete
            /\ ~last.transitioned
            /\ last.phase = "review"
            /\ state.phase = REVIEW
    /\ (last.op = "process_message" /\ last.session_complete)
         => last.before.phase = REVIEW

\* A message sent in REVIEW after the review intro.
C14_Witness ==
    /\ last.op = "process_message"
    /\ last.before.phase = REVIEW
    /\ last.before.review_conversation = <<"assistant">>
    /\ last.session_complete
    /\ state.phase = REVIEW

\* C15: a submit_quiz or skip_to_phase call that moves the phase to REVIEW
\* calls the persistence sink within that call.
C15_ReviewEntryPersists ==
    (/\ last.op \in {"submit_quiz", "skip_to_phase"}
     /\ last.before.phase # REVIEW
     /\ state.phase = REVIEW)
    => last.persist # "not_called"

\* The orchestrator a call started from: the helpers are those held now,
\* which no submit_quiz or REVIEW process_message call replaces.
OrchestratorBefore == [Orchestrator EXCEPT !.state = last.before]

\* C16: a sink that does not save (it raises or returns false) is never
\* surfaced: the submit_quiz or REVIEW process_message call returns what it
\* returns, and leaves the SessionState it leaves, when the save succeeds.
C16_SinkFailureNotSurfaced ==
    /\ (last.op = "process_message" /\ last.persist \in {"not_saved", "raised"})
         => LET r == process_review(OrchestratorBefore,
                                    Returned("process_message",
                                             OrchestratorBefore), "saved")
            IN /\ last.raised = ""
               /\ state = r.o.state
               /\ last = [r.ret EXCEPT !.persist = last.persist]
    /\ (last.op = "submit_quiz" /\ last.persist \in {"not_saved", "raised"})
         => \E rv \in ReviewReplies :
              LET r == submit_quiz(OrchestratorBefore, last.answers, rv, "saved")
              IN /\ rv.ok
                 /\ state = r.o.state
                 /\ last = [r.ret EXCEPT !.persist = last.persist]

\* A submission scored while the sink raised.
C16_Witness ==
    /\ last.op = "submit_quiz"
    /\ last.persist = "raised"
    /\ last.success = "true"
    /\ state.phase = REVIEW

\* C17: on an instance whose connection attempt did not succeed (no
\* MONGODB_URI, or the attempt failed), every save_session call, the first
\* and every later one, returns false, and nothing is ever written.
C17_UnavailableSinkSavesNothing ==
    persistence.connected_as \notin {"none", "connected"}
    => /\ \A id \in SessionIds : persistence.collection[id] = 0
       /\ ~persistence.available
       /\ last.op = "save_session" => (last.success = "false" /\ last.raised = "")

\* A save_session call on an instance that had already failed to connect.
C17_Witness ==
    /\ last.op = "save_session"
    /\ last.target = "a"
    /\ persistence.connected_as = "connection_failure"
    /\ persistence.client
    /\ last.success = "false"

\* C18: when a process_message call returns normally, its transitioned flag
\* is true exactly when state.phase after the call differs from state.phase
\* before it, and the phase it returns is state.phase after the call.
C18_TransitionedIffPhaseChanged ==
    (last.op = "process_message" /\ last.raised = "")
    => /\ last.transitioned <=> (state.phase # last.before.phase)
       /\ last.phase = state.phase

\* The teacher message that crosses into QUIZ, returned normally.
C18_Witness ==
    /\ last.op = "process_message"
    /\ last.raised = ""
    /\ last.transitioned
    /\ last.before.phase = TEACHER
    /\ last.phase = QUIZ
    /\ last.quiz_data # None

\* The log of a phase in a session.
log_of(s, phase) == current_log([s EXCEPT !.phase = phase])

\* C19: a process_message call that returns normally, in any of the four
\* phases, appends a user turn and then an assistant turn to the log of the
\* phase that was current when the call began.
C19_MessageAppendsUserThenAssistant ==
    (last.op = "process_message" /\ last.raised = "")
    => log_of(state, last.before.phase)
         = log_of(last.before, last.before.phase) \o <<"user", "assistant">>

\* The quiz q with every correct_answer and explanation replaced by key.
WithAnswerKey(q, key) ==
    [q EXCEPT !.answer_key =
        [i \in DOMAIN @ |-> [correct_answer |-> key, explanation |-> key]]]

\* What a caller sees of a call's outcome r: what it returned or raised, and
\* the session state.
CallerView(r) == <<r.ret, r.o.state>>

\* C20: nothing get_intro or process_message returns before the quiz is
\* submitted depends on the quiz's correct answers or explanations.  The
\* quiz_data payload of the TEACHER to QUIZ transition carries only id,
\* question and difficulty per question; two generated quizzes that differ
\* only in answers and explanations give the same result; and so do two
\* sessions that differ only in the answers and explanations of the quiz held.
C20_PayloadOmitsAnswers ==
    /\ (last.op = "process_message" /\ last.quiz_data # None)
         => \A i \in DOMAIN last.quiz_data[1].questions :
                /\ DOMAIN last.quiz_data[1].questions[i] = {"id", "keys"}
                /\ last.quiz_data[1].questions[i].keys
                     = {"id", "question", "difficulty"}
    /\ \A ev \in Unread(EvaluationReplies), ir \in Unread(IntroReplies),
          po \in PersistOutcomes :
         /\ state.phase = TEACHER
              => \A tr \in TeacherReplies, qr1 \in QuizReplies,
                    qr2 \in QuizReplies :
                     (qr1.ok = qr2.ok /\ qr1.n = qr2.n)
                     => CallerView(process_message(Orchestrator, ev, ir, tr,
                                                   qr1, po))
                          = CallerView(process_message(Orchestrator, ev, ir,
                                                       tr, qr2, po))
         /\ (quiz # None /\ state.quiz_result = None)
              => \A key \in AnswerKeys,
                    tr \in Unread(TeacherReplies), qr \in Unread(QuizReplies) :
                     LET other == [Orchestrator EXCEPT
                                     !.quiz = Some(WithAnswerKey(quiz[1], key))]
                         i1 == get_intro(Orchestrator, ir, qr)
                         i2 == get_intro(other, ir, qr)
                     IN /\ CallerView(process_message(Orchestrator, ev, ir,
                                                      tr, qr, po))
                             = CallerView(process_message(other, ev, ir, tr,
                                                          qr, po))
                        /\ <<i1.raised, i1.response, i1.o.state>>
                             = <<i2.raised, i2.response, i2.o.state>>

\* The transition to QUIZ returned the payload of a one-question quiz whose
\* answers are those of the second key.
C20_Witness ==
    /\ last.op = "process_message"
    /\ last.quiz_data # None
    /\ Len(last.quiz_data[1].questions) = 1
    /\ quiz # None
    /\ quiz[1].answer_key[1].correct_answer = "key 2"

\* C21: when the gateway call fails during a process_message call in TEACHER,
\* SessionState is exactly as before the call: no user turn was appended to
\* the teacher log, and phase, teacher_questions_asked and
\* current_difficulty are unchanged.
C21_TeacherGatewayFailureLeavesState ==
    (/\ last.op = "process_message"
     /\ last.before.phase = TEACHER
     /\ last.raised = "GatewayError")
    => state = last.before

\* C22: an unparseable gateway reply to a teacher turn does not fail the
\* turn: process_message returns the fixed fallback message, appends the
\* user and assistant turns, and leaves teacher_questions_asked,
\* current_difficulty and the phase unchanged.
C22_UnparseableReplyFallsBack ==
    \A tr \in {r \in TeacherReplies : r.ok /\ ~r.parsed},
       ev \in Unread(EvaluationReplies), ir \in Unread(IntroReplies),
       qr \in QuizReplies, po \in PersistOutcomes :
        state.phase = TEACHER
        => LET r == process_message(Orchestrator, ev, ir, tr, qr, po) IN
           r.ret.raised \notin {"GatewayError", "ValueError"}
           => /\ r.ret.raised = ""
              /\ r.ret.response = "fallback"
              /\ r.o.state = [state EXCEPT !.teacher_conversation =
                                              @ \o <<"user", "assistant">>]

\* The evaluator phase with five answers collected and the sixth awaited.
AwaitingSixthAnswer ==
    /\ state.phase = EVALUATOR
    /\ evaluator # None
    /\ evaluator[1].current_question = EVALUATOR_QUESTIONS - 1

\* C23: on completion of the evaluator phase the plan's student_level is the
\* level the gateway returned when it is low, medium or high, and medium for
\* any other value; in every case the sixth answer yields a plan and the
\* transition to TEACHER.
C23_PlanLevelFromGateway ==
    AwaitingSixthAnswer
    => \A ev \in {r \in EvaluationReplies : r.ok},
          ir \in {r \in IntroReplies : r.ok},
          tr \in Unread(TeacherReplies), qr \in Unread(QuizReplies),
          po \in PersistOutcomes :
           LET r == process_message(Orchestrator, ev, ir, tr, qr, po) IN
           /\ r.o.state.plan # None
           /\ r.o.state.plan[1].student_level
                = (IF ev.student_level \in Levels THEN ev.student_level
                   ELSE "medium")
           /\ r.o.state.phase = TEACHER

\* C24: a gateway failure during the sixth evaluator answer is recoverable:
\* the phase stays EVALUATOR and the plan is as it was, and a further
\* process_message call made with the gateway working sets the plan and
\* moves the phase to TEACHER.
C24_EvaluationFailureRecoverable ==
    (/\ last.op = "process_message"
     /\ last.before.phase = EVALUATOR
     /\ last.raised = "GatewayError")
    => /\ state.phase = EVALUATOR
       /\ state.plan = last.before.plan
       /\ \A ev \in {r \in EvaluationReplies : r.ok},
             ir \in {r \in IntroReplies : r.ok},
             tr \in Unread(TeacherReplies), qr \in Unread(QuizReplies),
             po \in PersistOutcomes :
              LET r == process_message(Orchestrator, ev, ir, tr, qr, po) IN
              /\ r.ret.raised = ""
              /\ r.o.state.plan # None
              /\ r.o.state.phase = TEACHER

\* C29: the end-to-end run.  From a fresh session the sixth evaluator answer,
\* with the gateway returning level low, gives plan.student_level = low,
\* current_difficulty = easy and the TEACHER phase; the teacher turn that
\* brings the questions asked to the threshold reaches QUIZ with a payload of
\* all the quiz's questions, a time limit and no correct_answer; submitting
\* an answer to every question gives the percentage of the gateway's score
\* and the REVIEW phase.
C29_EndToEndRun ==
    /\ (AwaitingSixthAnswer /\ state.plan = None)
         => \A ir \in {r \in IntroReplies : r.ok},
               tr \in Unread(TeacherReplies), qr \in Unread(QuizReplies),
               po \in PersistOutcomes :
                LET ev == [ok |-> TRUE, student_level |-> "low"]
                    r == process_message(Orchestrator, ev, ir, tr, qr, po)
                IN /\ r.o.state.plan # None
                   /\ r.o.state.plan[1].student_level = "low"
                   /\ r.o.state.current_difficulty = "easy"
                   /\ r.o.state.phase = TEACHER
    /\ (/\ last.op = "process_message"
        /\ last.raised = ""
        /\ last.before.phase = TEACHER
        /\ state.teacher_questions_asked = TEACHER_QUESTIONS_BEFORE_QUIZ)
         => /\ state.phase = QUIZ
            /\ last.quiz_data # None
            /\ quiz # None
            /\ Len(last.quiz_data[1].questions) = quiz[1].total_questions
            /\ "time_limit_seconds" \in DOMAIN last.quiz_data[1]
            /\ \A i \in DOMAIN last.quiz_data[1].questions :
                   "correct_answer" \notin DOMAIN last.quiz_data[1].questions[i]
    /\ (/\ last.op = "submit_quiz"
        /\ last.success = "true"
        /\ last.before.phase = QUIZ
        /\ quiz # None
        /\ quiz[1].total_questions > 0
        /\ last.answers = quiz[1].questions)
         => /\ state.phase = REVIEW
            /\ state.quiz_result # None
            /\ state.quiz_result[1].score_percentage
                 = [num |-> last.score * 100, den |-> quiz[1].total_questions]

\* a is a prefix of b.
IsPrefix(a, b) == Len(a) <= Len(b) /\ SubSeq(b, 1, Len(a)) = a

\* C28: each of the four conversation logs is append-only: the log before an
\* operation is a prefix of the log after it; and add_message(phase, role)
\* extends the log of the named phase by that one turn and leaves every
\* other field, the other three logs included, unchanged.
C28_LogsAppendOnly ==
    /\ \A phase \in Phase :
           IsPrefix(log_of(last.before, phase), log_of(state, phase))
    /\ \A phase \in Phase, role \in {"user", "assistant"} :
           LET s == add_message(state, phase, role) IN
           /\ log_of(s, phase) = log_of(state, phase) \o <<role>>
           /\ \A other \in Phase \ {phase} :
                  log_of(s, other) = log_of(state, other)
           /\ [s EXCEPT !.evaluator_conversation = <<>>,
                        !.teacher_conversation = <<>>,
                        !.quiz_conversation = <<>>,
                        !.review_conversation = <<>>]
                = [state EXCEPT !.evaluator_conversation = <<>>,
                                !.teacher_conversation = <<>>,
                                !.quiz_conversation = <<>>,
                                !.review_conversation = <<>>]

\* A teacher turn appended to a log that already held turns.
C28_Witness ==
    /\ last.op = "process_message"
    /\ last.before.phase = TEACHER
    /\ Len(last.before.teacher_conversation) >= 3
    /\ state.teacher_conversation
         = last.before.teacher_conversation \o <<"user", "assistant">>

\* The position of a difficulty along easy, medium, hard.
DifficultyRank(d) ==
    CASE d = "easy" -> 1 [] d = "medium" -> 2 [] d = "hard" -> 3

\* One step from d in the direction of should_adjust, clamped at the ends.
OneStep(d, should_adjust) ==
    LET k == DifficultyRank(d)
        k2 == CASE should_adjust = "up" -> (IF k < 3 THEN k + 1 ELSE 3)
                [] should_adjust = "down" -> (IF k > 1 THEN k - 1 ELSE 1)
                [] OTHER -> k
    IN CHOOSE e \in Difficulties : DifficultyRank(e) = k2

C26_OneOrchestratorPerSession ==
    \A c \in Callers :
        callers[c].result # None
        => /\ callers[c].pc = "done"
             => callers[c].result = registry.orchestrators[callers[c].session_id]
           /\ \A d \in Callers :
                  (/\ callers[d].result # None
                   /\ callers[c].pc = "done" /\ callers[d].pc = "done"
                   /\ callers[d].session_id = callers[c].session_id)
                  => callers[d].result = callers[c].result

\* C25: two process_message calls for the same session never interleave
\* their mutations of SessionState: while a call is suspended in a gateway
\* call the SessionState stays as that call left it, and two racing calls
\* never both generate a quiz or both perform the TEACHER to QUIZ transition.
C25_CallsDoNotInterleave ==
    /\ \A c \in Callers :
           callers[c].pc \in {"teacher_gateway", "quiz_gateway"}
           => callers[c].seen = Some(state)
    /\ Cardinality({c \in Callers : callers[c].generated}) <= 1
    /\ Cardinality({c \in Callers : callers[c].transitioned}) <= 1

\* C27: a call on one session never changes another session: after any
\* get_intro, process_message, submit_quiz or skip_to_phase call on a session,
\* the SessionState (phase, plan, logs, counters, quiz_result) and the helper
\* flows of every other session are as they were before the call.
C27_SessionsAreIsolated ==
    \A id \in SessionIds \ {last.session_id} :
        /\ registry.store[id] = last.before.store[id]
        /\ registry.orchestrators[id] = last.before.orchestrators[id]

\* A call changed session a while session b, changed by an earlier call,
\* holds a teacher flow.
C27_Witness ==
    /\ last.session_id = "a"
    /\ registry.store["a"] # last.before.store["a"]
    /\ registry.orchestrators["b"][1].teacher # None
    /\ registry.store["b"][1].teacher_conversation # <<>>
    /\ registry.store["b"] # registry.store["a"]

----------------------------------------------------------------------------
\* The weight of an evaluated answer, in halves.
Weight(was_correct) ==
    IF was_correct = "true" THEN 2
    ELSE IF was_correct = "partial" THEN 1
    ELSE 0

RECURSIVE SumWeights(_)
SumWeights(evaluations) ==
    IF evaluations = <<>> THEN 0
    ELSE Weight(Head(evaluations)) + SumWeights(Tail(evaluations))

\* C31: after every teacher turn state.teacher_correct is the sum, over the
\* teacher answers evaluated so far, of 1 for was_correct = true, 0.5 for
\* "partial" and 0 otherwise, and it does not exceed the number of evaluated
\* answers.  (Both sides are counted in halves.)
C31_TallyMatchesEvaluations ==
    /\ 2 * state.teacher_correct = SumWeights(last.evaluations)
    /\ state.teacher_correct <= Len(last.evaluations)

----------------------------------------------------------------------------
\* C32: in every reachable state of the evaluator helper, whatever
\* process_message calls were made (calls failing in the gateway and calls
\* after completion included), current_question is within 0..6, the number
\* of collected answers equals current_question, and is_complete holds
\* exactly when 6 answers have been collected.
C32_EvaluatorCountersAgree ==
    evaluator # None =>
        /\ evaluator[1].current_question \in 0..EVALUATOR_QUESTIONS
        /\ evaluator[1].answers = evaluator[1].current_question
        /\ evaluator[1].is_complete
               <=> (evaluator[1].answers = EVALUATOR_QUESTIONS)

----------------------------------------------------------------------------
\* C33: a forward skip_to_phase is all-or-nothing.  When producing the
\* target phase's intro fails (the gateway fails or a prerequisite is
\* missing), state.phase and the four logs are as before the call; and the
\* phase is at the target only with the intro turn appended to the target
\* phase's log.
C33_SkipIsAllOrNothing ==
    (/\ last.op = "skip_to_phase"
     /\ ~is_not_forward(PhaseIndex(last.target), PhaseIndex(last.before.phase)))
    => /\ last.raised # "" => state = last.before
       /\ state.phase = last.target
              => log_of(state, last.target)
                     = Append(log_of(last.before, last.target), "assistant")

----------------------------------------------------------------------------
\* C34: whatever the scoring gateway call of a submit_quiz made in QUIZ
\* gives (a reply, a failure, an unparseable reply, a reply lacking score,
\* summary or question_reviews), the call either returns a success result
\* with quiz_result set and the phase REVIEW, or leaves quiz_result unset and
\* the phase QUIZ; it does not raise once quiz_result is set or the phase
\* changed.
C34_SubmitOutcomeIsClean ==
    (/\ last.op = "submit_quiz"
     /\ last.had_quiz
     /\ last.before.phase = QUIZ
     /\ last.before.quiz_result = None)
    => \/ /\ last.raised = ""
          /\ last.success = "true"
          /\ state.quiz_result # None
          /\ state.phase = REVIEW
       \/ /\ state.quiz_result = None
          /\ state.phase = QUIZ

----------------------------------------------------------------------------
\* C35: create_orchestrator for a session whose SessionState exists yields
\* an orchestrator on that same SessionState: phase, plan, quiz_result, the
\* counters and the four logs are as before the re-creation, and the new
\* orchestrator's evaluator, teacher and quiz helpers are empty.
C35_RecreationKeepsState ==
    last.op = "create_orchestrator"
    => /\ state = last.before
       /\ evaluator = None
       /\ teacher = None
       /\ quiz = None

\* An orchestrator holding a quiz, in QUIZ with a plan and a teacher log, has
\* been re-created.
C35_Witness ==
    /\ last.op = "create_orchestrator"
    /\ last.had_quiz
    /\ state.phase = QUIZ
    /\ state.plan # None
    /\ state.teacher_conversation # <<>>
    /\ C35_RecreationKeepsState

----------------------------------------------------------------------------
\* C36: state.teacher_questions_asked never decreases: after any operation
\* (re-creation of the orchestrator in TEACHER and teacher turns answered by
\* the fallback included) the counter is at least what it was before, and a
\* process_message call raises it by at most 1.
C36_QuestionsAskedNeverDecreases ==
    /\ state.teacher_questions_asked >= last.before.teacher_questions_asked
    /\ last.op = "process_message"
           => state.teacher_questions_asked
                  <= last.before.teacher_questions_asked + 1

----------------------------------------------------------------------------
\* C37: the teacher agent's transcript and the session's teacher log are the
\* same sequence of turns: after every operation that returns normally
\* (get_intro, process_message, skip_to_phase, also after a re-creation of
\* the orchestrator), TeacherAgent.conversation_history equals
\* state.teacher_conversation.
C37_TeacherHistoryIsTeacherLog ==
    (last.raised = "" /\ teacher # None)
    => teacher[1].conversation_history = state.teacher_conversation

----------------------------------------------------------------------------
\* C38: between operations, a session whose phase is QUIZ has an
\* orchestrator holding a generated quiz, so that submit_quiz is accepted,
\* whether QUIZ was reached at the teacher threshold, by skip_to_phase, or
\* the orchestrator was re-created.
C38_QuizPhaseHasQuiz ==
    state.phase = QUIZ
    => /\ quiz # None
       /\ submit_quiz(Orchestrator, <<>>, NoReview, "not_called").ret.error
              # "No quiz available"

----------------------------------------------------------------------------
\* C39: the scored set of a submit_quiz call holds each quiz question at
\* most once: the quiz's question ids are the distinct integers 1..n with
\* n = total_questions, and for every answer list (lists repeating a
\* question_id included) the returned total and quiz_result.total_questions
\* do not exceed the quiz's total_questions.
C39_ScoredAtMostOnce ==
    (last.op = "submit_quiz" /\ last.had_quiz /\ last.raised = "")
    => /\ quiz[1].questions = [i \in 1..quiz[1].total_questions |-> i]
       /\ \A i, j \in DOMAIN last.scored :
              i # j => last.scored[i] # last.scored[j]
       /\ last.total <= quiz[1].total_questions
       /\ state.quiz_result # None
              => state.quiz_result[1].total_questions
                     <= quiz[1].total_questions

----------------------------------------------------------------------------
\* C40: after every successful submit_quiz the stored result is consistent
\* and bounded, whatever score the gateway returned:
\* 0 <= correct_answers <= total_questions, 0 <= score_percentage <= 100,
\* and score_percentage = correct / total * 100 when total > 0.
C40_StoredResultBounded ==
    (last.op = "submit_quiz" /\ last.success = "true")
    => LET result == state.quiz_result[1] IN
       /\ 0 <= result.correct_answers
       /\ result.correct_answers <= result.total_questions
       /\ 0 <= result.score_percentage.num
       /\ result.score_percentage.num <= 100 * result.score_percentage.den
       /\ result.total_questions > 0
              => result.score_percentage
                     = [num |-> result.correct_answers * 100,
                        den |-> result.total_questions]

====
